---- MODULE Spec2Model ----
(***************************************************************************)
(* SwagX: the Swagger/OpenAPI document parser (src/parser/swaggerParser.js) *)
(* and the command line entry point (parse, test and scan commands).        *)
(*                                                                          *)
(* JavaScript strings that the code transforms (paths, method names,       *)
(* operation ids, format names, the --timeout argument) are sequences of   *)
(* one-character strings.  A JavaScript object is a function whose DOMAIN  *)
(* is the set of keys it has; reading a key gives an optional value        *)
(* [defined, value].  A call that can throw gives [threw, value | error].  *)
(***************************************************************************)
EXTENDS Integers, Sequences, FiniteSets, TLC

\* ------------------------------------------------------------------ bounds
\* Operations in one document, over all of its paths.
MaxOps == 2
\* Parameters declared by one operation.
MaxParams == 1

\* --------------------------------------------------------- JavaScript values
undefined == [defined |-> FALSE]
Some(v) == [defined |-> TRUE, value |-> v]
\* obj[key] of a JavaScript object.
Get(obj, key) == IF key \in DOMAIN obj THEN Some(obj[key]) ELSE undefined

Return(v) == [threw |-> FALSE, value |-> v]
Throw(msg) == [threw |-> TRUE, error |-> msg]

LowerLetters ==
  << "a","b","c","d","e","f","g","h","i","j","k","l","m",
     "n","o","p","q","r","s","t","u","v","w","x","y","z" >>
UpperLetters ==
  << "A","B","C","D","E","F","G","H","I","J","K","L","M",
     "N","O","P","Q","R","S","T","U","V","W","X","Y","Z" >>
Digits == << "0","1","2","3","4","5","6","7","8","9" >>

Range(s) == { s[i] : i \in DOMAIN s }
IndexOf(s, c) == CHOOSE i \in DOMAIN s : s[i] = c

\* String.prototype.toUpperCase / toLowerCase, character by character.
toUpperCase(s) ==
  [i \in DOMAIN s |->
     IF s[i] \in Range(LowerLetters) THEN UpperLetters[IndexOf(LowerLetters, s[i])]
     ELSE s[i]]
toLowerCase(s) ==
  [i \in DOMAIN s |->
     IF s[i] \in Range(UpperLetters) THEN LowerLetters[IndexOf(UpperLetters, s[i])]
     ELSE s[i]]

\* path.replace(/[^a-zA-Z0-9]/g, '_')
IsAlnum(c) == c \in Range(LowerLetters) \cup Range(UpperLetters) \cup Range(Digits)
replaceNonAlnum(s) == [i \in DOMAIN s |-> IF IsAlnum(s[i]) THEN s[i] ELSE "_"]

\* ------------------------------------------------------------------ parser
\* const methods = ['get', 'post', 'put', 'delete', 'patch', 'head', 'options'];
methods ==
  << <<"g","e","t">>, <<"p","o","s","t">>, <<"p","u","t">>,
     <<"d","e","l","e","t","e">>, <<"p","a","t","c","h">>,
     <<"h","e","a","d">>, <<"o","p","t","i","o","n","s">> >>

\* `${method.toUpperCase()}_${path.replace(/[^a-zA-Z0-9]/g, '_')}`
synthesizedId(method, path) == toUpperCase(method) \o <<"_">> \o replaceNonAlnum(path)

\* The id always synthesized, the declared operationId ignored.
operationIdOf_alwaysSynthesized(method, path, operation) == synthesizedId(method, path)

\* operation.operationId || <synthesized>: an absent or empty id is falsy.
operationIdOf(method, path, operation) ==
  LET declared == Get(operation, "operationId")
  IN  IF declared.defined /\ declared.value # <<>> THEN declared.value
      ELSE synthesizedId(method, path)

\* parameters.map(param => ({name: param.name, in: param.in, ...}))
extractParameters(parameters) ==
  [i \in DOMAIN parameters |->
     [name |-> parameters[i].name, in |-> Get(parameters[i], "in")]]

\* Object.entries(responses) throws a TypeError when responses is undefined.
extractResponses(responses) ==
  IF ~responses.defined
  THEN Throw("TypeError: Cannot convert undefined or null to object")
  ELSE Return(responses.value)

\* The endpoint object built for one operation (the fields the catalog's
\* consumers read: path, method, operationId, parameters, responses).
EndpointOf(path, method, operation) ==
  LET params == Get(operation, "parameters")
      responses == extractResponses(Get(operation, "responses"))
  IN  IF responses.threw THEN responses
      ELSE Return([path |-> path,
                   method |-> toUpperCase(method),
                   operationId |-> operationIdOf(method, path, operation),
                   parameters |-> extractParameters(IF params.defined THEN params.value ELSE <<>>),
                   responses |-> responses.value])

\* The two nested loops of extractEndpoints: entry i of Object.entries(api.paths),
\* method j of methods.
RECURSIVE ExtractFrom(_, _, _, _)
ExtractFrom(entries, i, j, endpoints) ==
  IF i > Len(entries) THEN Return(endpoints)
  ELSE IF j > Len(methods) THEN ExtractFrom(entries, i + 1, 1, endpoints)
  ELSE LET pathItem == entries[i].item
           method == methods[j]
       IN  IF method \in DOMAIN pathItem
           THEN LET endpoint == EndpointOf(entries[i].path, method, pathItem[method])
                IN  IF endpoint.threw THEN endpoint
                    ELSE ExtractFrom(entries, i, j + 1, Append(endpoints, endpoint.value))
           ELSE ExtractFrom(entries, i, j + 1, endpoints)

extractEndpoints(api) ==
  IF "paths" \notin DOMAIN api THEN Return(<<>>)
  ELSE ExtractFrom(api.paths, 1, 1, <<>>)

\* this.parser.parse(filePath) of the swagger-parser library: it reads the file
\* and gives the document, or throws (no such file, or not a document it accepts).
parserParse(file) ==
  IF ~file.exists THEN Throw("ENOENT: no such file or directory")
  ELSE IF ~file.accepted THEN Throw("not a valid Swagger/OpenAPI document")
  ELSE Return(file.api)

\* fs.access(filePath)
fsAccess(file) ==
  IF file.exists THEN Return("ok") ELSE Throw("ENOENT: no such file or directory")

\* parse(filePath): every error of the try block is rethrown as a parse failure.
parse(file) ==
  LET access == fsAccess(file)
      parsedApi == parserParse(file)
      endpoints == extractEndpoints(parsedApi.value)
  IN  IF access.threw THEN Throw(access.error)
      ELSE IF parsedApi.threw THEN Throw(parsedApi.error)
      ELSE IF endpoints.threw THEN Throw(endpoints.error)
      ELSE Return([info |-> parsedApi.value.info,
                   endpoints |-> endpoints.value,
                   raw |-> parsedApi.value])

\* validate(filePath): true when this.parser.parse does not throw.
validate(file) == Return(~parserParse(file).threw)

\* convertToCsv(data): the number of lines of the CSV text ('' has none); data
\* without a length (the catalog object) gives ''.
convertToCsv(data) ==
  IF data.isArray /\ Len(data.items) > 0 THEN Len(data.items) + 1 ELSE 0

json == <<"j","s","o","n">>
yaml == <<"y","a","m","l">>
txt == <<"t","x","t">>
csv == <<"c","s","v">>
table == <<"t","a","b","l","e">>

\* The switch of saveToFile on format itself, without toLowerCase().
contentFor_caseSensitive(data, format) ==
  IF format = json THEN Return([by |-> "JSON.stringify", of |-> data])
  ELSE IF format = yaml THEN Return([by |-> "yaml.dump", of |-> data])
  ELSE IF format = txt THEN Return([by |-> "JSON.stringify", of |-> data])
  ELSE IF format = csv THEN Return([by |-> "convertToCsv", lines |-> convertToCsv(data)])
  ELSE Throw("unsupported output format")

\* The switch of saveToFile: the content for a format, or the thrown error.
contentFor(data, format) ==
  LET f == toLowerCase(format)
  IN  IF f = json THEN Return([by |-> "JSON.stringify", of |-> data])
      ELSE IF f = yaml THEN Return([by |-> "yaml.dump", of |-> data])
      ELSE IF f = txt THEN Return([by |-> "JSON.stringify", of |-> data])
      ELSE IF f = csv THEN Return([by |-> "convertToCsv", lines |-> convertToCsv(data)])
      ELSE Throw("unsupported output format")

\* saveToFile(data, outputPath, format = 'json'): the calls it makes to
\* fs.writeFile, the files it leaves on the disk, and whether it throws.
\* fs.writeFile fails when the disk is not writable.
saveToFile(data, outputPath, format, writable) ==
  LET content == contentFor(data, IF format.defined THEN format.value ELSE json)
  IN  IF content.threw
      THEN [threw |-> TRUE, writeFileCalls |-> 0, written |-> {}]
      ELSE IF ~writable
      THEN [threw |-> TRUE, writeFileCalls |-> 1, written |-> {}]
      ELSE [threw |-> FALSE, writeFileCalls |-> 1,
            written |-> { [path |-> outputPath, content |-> content.value] }]

\* ------------------------------------------------- command line arguments
\* A JavaScript number: NaN, or an integer.
NaN == [nan |-> TRUE]
Num(n) == [nan |-> FALSE, value |-> n]

IsWhitespace(c) == c \in {" ", "\t", "\n", "\r"}
RECURSIVE TrimStart(_)
TrimStart(s) == IF s # <<>> /\ IsWhitespace(Head(s)) THEN TrimStart(Tail(s)) ELSE s

\* The value of a digit, or 36 for a character that is no digit in any radix.
DigitValue(c) ==
  IF c \in Range(Digits) THEN IndexOf(Digits, c) - 1
  ELSE IF c \in Range(LowerLetters) THEN IndexOf(LowerLetters, c) + 9
  ELSE IF c \in Range(UpperLetters) THEN IndexOf(UpperLetters, c) + 9
  ELSE 36
RECURSIVE DigitsPrefix(_, _)
DigitsPrefix(s, radix) ==
  IF s # <<>> /\ DigitValue(Head(s)) < radix
  THEN <<Head(s)>> \o DigitsPrefix(Tail(s), radix)
  ELSE <<>>
RECURSIVE ValueOf(_, _, _)
ValueOf(digits, radix, acc) ==
  IF digits = <<>> THEN acc
  ELSE ValueOf(Tail(digits), radix, acc * radix + DigitValue(Head(digits)))

\* parseInt(string) without a radix: leading white space, a sign, 0x for
\* hexadecimal, then the longest prefix of digits; NaN when there is none.
parseInt(string) ==
  LET s1 == TrimStart(string)
      negative == s1 # <<>> /\ Head(s1) = "-"
      s2 == IF s1 # <<>> /\ Head(s1) \in {"+", "-"} THEN Tail(s1) ELSE s1
      hex == Len(s2) >= 2 /\ s2[1] = "0" /\ s2[2] \in {"x", "X"}
      radix == IF hex THEN 16 ELSE 10
      s3 == IF hex THEN SubSeq(s2, 3, Len(s2)) ELSE s2
      digits == DigitsPrefix(s3, radix)
  IN  IF digits = <<>> THEN NaN
      ELSE Num((IF negative THEN -1 ELSE 1) * ValueOf(digits, radix, 0))

\* if (value): a string option is truthy when given and not empty.
Truthy(option) == option.defined /\ option.value # ""

\* -------------------------------------------------------- input documents
get == <<"g","e","t">>
post == <<"p","o","s","t">>
trace == <<"t","r","a","c","e">>
\* Keys a path item of an input document may have (trace is not in methods).
ItemKeys == { get, post, trace }
\* "/a-b" and "/a_b": two different paths of an input document.
PathNames == { <<"/","a","-","b">>, <<"/","a","_","b">> }

\* Declared operationId values of input documents ("" and "x").
OperationIds == { <<>>, <<"x">> }
\* Parameter objects: in: query, in: body (Swagger 2.0), or no `in` key.
Parameters ==
  { [name |-> "p", in |-> l] : l \in {"query", "body"} } \cup { [name |-> "p"] }
ParameterLists == UNION { [1..n -> Parameters] : n \in 0..MaxParams }

Responses200 == [code \in {"200"} |-> [description |-> "ok"]]
BaseOperation == [responses |-> Responses200]
\* Operations that differ in their operationId only.
IdOperations ==
  { BaseOperation } \cup
  { [responses |-> Responses200, operationId |-> id] : id \in OperationIds }
\* Operations of input documents: with or without operationId, parameters,
\* responses.
Operations ==
  IdOperations \cup
  { [responses |-> Responses200, parameters |-> ps] : ps \in ParameterLists } \cup
  { [summary |-> "no responses"] }

Positions == PathNames \X ItemKeys
Placements(ops, n) ==
  { f \in UNION { [S -> ops] : S \in { T \in SUBSET Positions : Cardinality(T) <= n } } :
      \A p \in DOMAIN f : p[2] = trace => f[p] = BaseOperation }
Orders(P) ==
  { s \in [1..Cardinality(P) -> P] : \A i, j \in DOMAIN s : i # j => s[i] # s[j] }
\* api.paths, in the insertion order Object.entries follows.
PathsObject(f, order) ==
  [i \in 1..Len(order) |->
     [path |-> order[i],
      item |-> [k \in { p[2] : p \in { q \in DOMAIN f : q[1] = order[i] } } |->
                  f[<<order[i], k>>]]]]
\* Parsed documents: without paths, or with at most n operations drawn from ops.
Documents(ops, n) ==
  { [info |-> "api"] } \cup
  UNION { { [info |-> "api", paths |-> PathsObject(f, o)] :
              o \in Orders({ p[1] : p \in DOMAIN f }) } :
          f \in Placements(ops, n) }

\* -------------------------------------------------------- command handlers
\* SecurityTester.runTests(swaggerData): it throws a ConfigError when the
\* configuration has no baseUrl, and otherwise gives the test report.
runTests(config, swaggerData) ==
  IF ~Truthy(config.baseUrl) THEN Throw("ConfigError: baseUrl is required")
  ELSE Return([scannedEndpoints |-> Len(swaggerData.endpoints)])

\* Reporter.saveReport(results, file): it writes the report, and throws when
\* the disk is not writable.
saveReport(results, reportPath, writable) ==
  IF writable THEN Return(reportPath) ELSE Throw("EACCES: permission denied")

\* data handed to saveToFile: an object (the catalog) or an array.
ObjectData(v) == [isArray |-> FALSE, object |-> v]
ArrayData(items) == [isArray |-> TRUE, items |-> items]

\* What a command has done when its handler ends; exitCode is the code the
\* process ends with (1 after process.exit(1), 0 otherwise).
Quiet(parseResult) ==
  [parsed |-> parseResult, testerConfigs |-> <<>>, runTestsCalls |-> 0,
   reportsSaved |-> {}, printed |-> {}, writeFileCalls |-> 0, written |-> {},
   exitCode |-> 0]

\* A handler's catch block without process.exit(1): the error is only printed.
catchExit_printOnly(outcome) == outcome

\* The catch block of a command's handler: console.error, process.exit(1).
catchExit(outcome) == [outcome EXCEPT !.exitCode = 1]

\* The handler of the parse command.
parseAction(f, options, writable) ==
  LET result == parse(f)
      saved == saveToFile(ObjectData(result.value), options.output.value,
                          Some(options.format), writable)
  IN  IF result.threw THEN catchExit(Quiet(result))
      ELSE IF Truthy(options.output)
      THEN LET wrote == [Quiet(result) EXCEPT !.writeFileCalls = saved.writeFileCalls,
                                              !.written = saved.written]
           IN  IF saved.threw THEN catchExit(wrote) ELSE wrote
      ELSE [Quiet(result) EXCEPT !.printed = {"endpoints"}]

\* The handler of the test command.
testAction(f, options, writable) ==
  LET swaggerData == parse(f)
      config == [baseUrl |-> options.baseUrl,
                 timeout |-> parseInt(options.timeout),
                 sslVerify |-> options.sslVerify]
      results == runTests(config, swaggerData.value)
      saved == saveReport(results.value, options.report.value, writable)
      tested == [Quiet(swaggerData) EXCEPT !.testerConfigs = <<config>>,
                                           !.runTestsCalls = 1]
  IN  IF swaggerData.threw THEN catchExit(Quiet(swaggerData))
      ELSE IF results.threw THEN catchExit(tested)
      ELSE IF Truthy(options.report)
      THEN IF saved.threw THEN catchExit(tested)
           ELSE [tested EXCEPT !.reportsSaved = {saved.value}]
      ELSE [tested EXCEPT !.printed = {"testResults"}]

\* The handler of the scan command.
scanAction(f, options, writable) ==
  LET swaggerData == parse(f)
      config == [baseUrl |-> options.baseUrl, timeout |-> Num(5000), sslVerify |-> TRUE]
      results == runTests(config, swaggerData.value)
      reportPath == IF Truthy(options.output)
                    THEN options.output.value \o "/" \o options.report
                    ELSE options.report
      saved == saveReport(results.value, reportPath, writable)
      tested == [Quiet(swaggerData) EXCEPT !.testerConfigs = <<config>>,
                                           !.runTestsCalls = 1]
  IN  IF swaggerData.threw THEN catchExit(Quiet(swaggerData))
      ELSE IF Truthy(options.baseUrl)
      THEN IF results.threw \/ saved.threw THEN catchExit(tested)
           ELSE [tested EXCEPT !.reportsSaved = {saved.value}]
      ELSE Quiet(swaggerData)

\* ------------------------------------------- inputs of the command line
\* Input files: missing, rejected by the parser library, or holding a document.
Files(docs) ==
  { [exists |-> FALSE], [exists |-> TRUE, accepted |-> FALSE] } \cup
  { [exists |-> TRUE, accepted |-> TRUE, api |-> d] : d \in docs }

\* Values of --format / the format argument: the formats the code names, other
\* spellings of them, and an unknown one.
FormatArgs ==
  { json, yaml, txt, csv, table,
    <<"J","S","O","N">>, <<"Y","a","m","l">>, <<"x","m","l">> }
\* Values of --timeout: "5000" (the default), "abc", "0", "-5", "12px", "",
\* " 7", "0x10", "1.5".
TimeoutArgs ==
  { <<"5","0","0","0">>, <<"a","b","c">>, <<"0">>, <<"-","5">>,
    <<"1","2","p","x">>, <<>>, <<" ","7">>, <<"0","x","1","0">>, <<"1",".","5">> }
BaseUrlArgs == { undefined, Some(""), Some("http://api") }

ParseOptions == [output : {undefined, Some("out.txt")}, format : FormatArgs]
TestOptions ==
  [baseUrl : BaseUrlArgs, timeout : TimeoutArgs,
   report : {undefined, Some("report.json")}, sslVerify : BOOLEAN]
ScanOptions ==
  [baseUrl : BaseUrlArgs, output : {undefined, Some("out")},
   report : {"swagX-report.json", "report.json"}]
CommandLines ==
  { [command |-> "parse", options |-> o] : o \in ParseOptions } \cup
  { [command |-> "test", options |-> o] : o \in TestOptions } \cup
  { [command |-> "scan", options |-> o] : o \in ScanOptions }

\* ------------------------------------------------------------------- state
VARIABLES
  calls,          \* names of the operations that have completed
  api,            \* the document handed to extractEndpoints
  api2,           \* the document of a second run
  extracted,      \* result of extractEndpoints(api)
  extracted2,     \* result of extractEndpoints(api2)
  file,           \* the input file
  argv,           \* the command line: command and options
  writable,       \* whether the disk accepts writes
  parsed,         \* result of parse(file)
  valid,          \* result of validate(file)
  saved,          \* result of saveToFile: its arguments and whether it threw
  writeFileCalls, \* calls of fs.writeFile
  disk,           \* files written by fs.writeFile
  testerConfigs,  \* configurations handed to new SecurityTester(...)
  runTestsCalls,  \* calls of SecurityTester.runTests
  reportsSaved,   \* report files written by Reporter.saveReport
  printed,        \* what the reporter printed
  exitCode        \* the code the process ends with

extractVars == << api, api2, extracted, extracted2 >>
inputVars == << file, argv, writable >>
parserVars == << parsed, valid, saved, writeFileCalls, disk >>
testerVars == << testerConfigs, runTestsCalls, reportsSaved, printed, exitCode >>
vars == << calls, extractVars, inputVars, parserVars, testerVars >>

notCalled == [called |-> FALSE]
noApi == [info |-> "api"]

\* The state before anything has run.
Fresh ==
  /\ calls = {}
  /\ extracted = notCalled /\ extracted2 = notCalled
  /\ parsed = notCalled /\ valid = notCalled /\ saved = notCalled
  /\ writeFileCalls = 0 /\ disk = {}
  /\ testerConfigs = <<>> /\ runTestsCalls = 0
  /\ reportsSaved = {} /\ printed = {} /\ exitCode = 0

NoCommandLine ==
  /\ file = [exists |-> FALSE]
  /\ argv = [command |-> "none"]
  /\ writable = TRUE

\* ------------------------------------------------- extractEndpoints, one run
InitExtract ==
  /\ Fresh /\ NoCommandLine
  /\ api \in Documents(Operations, MaxOps)
  /\ api2 = noApi

ExtractEndpoints ==
  /\ "extractEndpoints" \notin calls
  /\ extracted' = extractEndpoints(api)
  /\ calls' = calls \cup {"extractEndpoints"}
  /\ UNCHANGED << api, api2, extracted2, inputVars, parserVars, testerVars >>

NextExtract == ExtractEndpoints
SpecExtract == InitExtract /\ [][NextExtract]_vars

Returned == "extractEndpoints" \in calls /\ ~extracted.threw
Endpoints == extracted.value

\* C1: no two distinct endpoints of one extractEndpoints result carry the
\* same operationId.
C1_OperationIdUnique ==
  Returned =>
    \A i, j \in DOMAIN Endpoints :
      i # j => Endpoints[i].operationId # Endpoints[j].operationId

\* The (path, method) pairs a document defines with a method of `methods`.
Documented(doc) ==
  IF "paths" \notin DOMAIN doc THEN {}
  ELSE UNION { { <<doc.paths[i].path, k>> : k \in DOMAIN doc.paths[i].item \cap Range(methods) } :
               i \in DOMAIN doc.paths }
EndpointsAt(endpoints, pm) ==
  { i \in DOMAIN endpoints :
      endpoints[i].path = pm[1] /\ endpoints[i].method = toUpperCase(pm[2]) }

\* C5: extractEndpoints returns, for every document, exactly one endpoint for
\* each documented (path, method) pair with a method of the seven, no endpoint
\* for any other pair, and the empty list for a document without paths.
C5_OneEndpointPerOperation ==
  "extractEndpoints" \in calls =>
    /\ ~extracted.threw
    /\ \A pm \in Documented(api) : Cardinality(EndpointsAt(Endpoints, pm)) = 1
    /\ \A i \in DOMAIN Endpoints : \E pm \in Documented(api) : i \in EndpointsAt(Endpoints, pm)
    /\ ("paths" \notin DOMAIN api => Endpoints = <<>>)

ParameterLocations == { "path", "query", "header", "cookie" }

\* C6: every parameter of every endpoint of the catalog has a location among
\* path, query, header, cookie.
C6_ParameterLocation ==
  Returned =>
    \A i \in DOMAIN Endpoints : \A k \in DOMAIN Endpoints[i].parameters :
      LET location == Endpoints[i].parameters[k].in
      IN  location.defined /\ location.value \in ParameterLocations

\* ------------------------------------------------ extractEndpoints, two runs
InitRerun ==
  /\ Fresh /\ NoCommandLine
  /\ api \in Documents(IdOperations, MaxOps)
  /\ api2 \in Documents(Operations, 1)

ExtractAgain ==
  /\ "extractEndpoints" \in calls
  /\ "extractEndpoints again" \notin calls
  /\ extracted2' = extractEndpoints(api2)
  /\ calls' = calls \cup {"extractEndpoints again"}
  /\ UNCHANGED << api, api2, extracted, inputVars, parserVars, testerVars >>

NextRerun == ExtractEndpoints \/ ExtractAgain
SpecRerun == InitRerun /\ [][NextRerun]_vars

BothReturned ==
  /\ {"extractEndpoints", "extractEndpoints again"} \subseteq calls
  /\ ~extracted.threw /\ ~extracted2.threw
\* The operation of doc an endpoint was built from.
OperationOf(doc, endpoint) ==
  LET i == CHOOSE i \in DOMAIN doc.paths : doc.paths[i].path = endpoint.path
      k == CHOOSE k \in DOMAIN doc.paths[i].item \cap Range(methods) :
             toUpperCase(k) = endpoint.method
  IN  doc.paths[i].item[k]
Declares(operation) == "operationId" \in DOMAIN operation
DeclaresNonEmpty(operation) == Declares(operation) /\ operation.operationId # <<>>

\* C2 as stated: an operation without operationId gets the same id in two runs
\* over documents that both hold its (method, path); an operation that
\* declares an operationId keeps it.
C2_SynthesizedOrKept ==
  BothReturned =>
    /\ \A i \in DOMAIN extracted.value : \A j \in DOMAIN extracted2.value :
         LET e1 == extracted.value[i]
             e2 == extracted2.value[j]
         IN  ( /\ e1.path = e2.path /\ e1.method = e2.method
               /\ ~Declares(OperationOf(api, e1))
               /\ ~Declares(OperationOf(api2, e2)) )
             => e1.operationId = e2.operationId
    /\ \A i \in DOMAIN extracted.value :
         LET e == extracted.value[i]
         IN  Declares(OperationOf(api, e)) => e.operationId = OperationOf(api, e).operationId

\* C2 amended: an operation without operationId, or with an empty one, gets
\* the same id in two runs over documents that both hold its (method, path);
\* an operation that declares a non-empty operationId keeps it.
C2_SynthesizedOrKeptNonEmpty ==
  BothReturned =>
    /\ \A i \in DOMAIN extracted.value : \A j \in DOMAIN extracted2.value :
         LET e1 == extracted.value[i]
             e2 == extracted2.value[j]
         IN  ( /\ e1.path = e2.path /\ e1.method = e2.method
               /\ ~DeclaresNonEmpty(OperationOf(api, e1))
               /\ ~DeclaresNonEmpty(OperationOf(api2, e2)) )
             => e1.operationId = e2.operationId
    /\ \A i \in DOMAIN extracted.value :
         LET e == extracted.value[i]
         IN  DeclaresNonEmpty(OperationOf(api, e))
             => e.operationId = OperationOf(api, e).operationId

\* Two runs over different documents share an operation without a usable id,
\* next to an operation of the first document that declares its id.
C2_Witness ==
  /\ BothReturned
  /\ api # api2
  /\ Len(extracted.value) = 2
  /\ \E i \in DOMAIN extracted.value : \E j \in DOMAIN extracted2.value :
       /\ extracted.value[i].path = extracted2.value[j].path
       /\ extracted.value[i].method = extracted2.value[j].method
       /\ ~DeclaresNonEmpty(OperationOf(api, extracted.value[i]))
       /\ ~DeclaresNonEmpty(OperationOf(api2, extracted2.value[j]))
       /\ "parameters" \in DOMAIN OperationOf(api2, extracted2.value[j])
  /\ \E i \in DOMAIN extracted.value : DeclaresNonEmpty(OperationOf(api, extracted.value[i]))

\* ------------------------------------------------------------ the commands
\* One run of the program: a command line, an input file, a disk.
Init ==
  /\ Fresh
  /\ api = noApi /\ api2 = noApi
  /\ file \in Files(Documents(Operations, 1))
  /\ argv \in CommandLines
  /\ writable \in BOOLEAN

\* The state a command's handler leaves.
Finish(outcome) ==
  /\ parsed' = outcome.parsed
  /\ writeFileCalls' = outcome.writeFileCalls
  /\ disk' = outcome.written
  /\ testerConfigs' = outcome.testerConfigs
  /\ runTestsCalls' = outcome.runTestsCalls
  /\ reportsSaved' = outcome.reportsSaved
  /\ printed' = outcome.printed
  /\ exitCode' = outcome.exitCode
  /\ calls' = calls \cup {argv.command}
  /\ UNCHANGED << extractVars, inputVars, valid, saved >>

ParseCommand ==
  /\ calls = {} /\ argv.command = "parse"
  /\ Finish(parseAction(file, argv.options, writable))

TestCommand ==
  /\ calls = {} /\ argv.command = "test"
  /\ Finish(testAction(file, argv.options, writable))

ScanCommand ==
  /\ calls = {} /\ argv.command = "scan"
  /\ Finish(scanAction(file, argv.options, writable))

Next == ParseCommand \/ TestCommand \/ ScanCommand
Spec == Init /\ [][Next]_vars

Ended(command) == command \in calls
RunsTests == Ended("test") \/ Ended("scan")

\* C3: in the test and scan commands, when parser.parse fails, runTests is
\* never invoked, no report is saved or printed, and the exit code is 1.
C3_ParseFailureAborts ==
  (RunsTests /\ parsed.threw) =>
    /\ runTestsCalls = 0 /\ testerConfigs = <<>>
    /\ reportsSaved = {} /\ printed = {}
    /\ exitCode = 1

\* The test command has ended on a document whose endpoint extraction throws,
\* with a base URL given.
C3_WitnessTest ==
  /\ Ended("test") /\ parsed.threw
  /\ file.exists /\ file.accepted
  /\ Truthy(argv.options.baseUrl)

\* C4: test and scan without --base-url end in failure (exit code 1) and
\* never invoke runTests.
C4_MissingBaseUrlFatal ==
  (RunsTests /\ ~argv.options.baseUrl.defined) =>
    exitCode = 1 /\ runTestsCalls = 0

\* The formats the parse command advertises for --format.
AdvertisedFormats == { json, yaml, table }

\* C7: parse --output with an advertised format (json, yaml, table), after a
\* successful parse and on a writable disk, writes the output file and ends
\* without error.
C7_AdvertisedFormatsSaved ==
  ( /\ Ended("parse") /\ ~parsed.threw /\ writable
    /\ Truthy(argv.options.output)
    /\ argv.options.format \in AdvertisedFormats )
  => /\ \E w \in disk : w.path = argv.options.output.value
     /\ exitCode = 0

\* C8: every configuration handed to the security tester has a timeout that
\* is an integer greater than 0.
C8_TimeoutPositive ==
  \A i \in DOMAIN testerConfigs :
    ~testerConfigs[i].timeout.nan /\ testerConfigs[i].timeout.value > 0

\* ------------------------------------------------- the parser's own methods
\* parse, validate and saveToFile called on one file, in any order.
SaveArguments ==
  [data : { ObjectData([endpoints |-> <<>>]), ArrayData(<<>>),
            ArrayData(<< [path |-> <<"/","a">>, method |-> <<"G","E","T">>] >>) },
   outputPath : {"out.txt"},
   format : {undefined} \cup { Some(f) : f \in FormatArgs }]

InitParser ==
  /\ Fresh
  /\ api = noApi /\ api2 = noApi
  /\ file \in Files(Documents(Operations, 1))
  /\ argv = [command |-> "none"]
  /\ writable \in BOOLEAN

Parse ==
  /\ "parse" \notin calls
  /\ parsed' = parse(file)
  /\ calls' = calls \cup {"parse"}
  /\ UNCHANGED << extractVars, inputVars, valid, saved, writeFileCalls, disk, testerVars >>

Validate ==
  /\ "validate" \notin calls
  /\ valid' = validate(file)
  /\ calls' = calls \cup {"validate"}
  /\ UNCHANGED << extractVars, inputVars, parsed, saved, writeFileCalls, disk, testerVars >>

SaveToFile ==
  /\ "saveToFile" \notin calls
  /\ \E args \in SaveArguments :
       LET result == saveToFile(args.data, args.outputPath, args.format, writable)
       IN  /\ saved' = [args |-> args, threw |-> result.threw]
           /\ writeFileCalls' = writeFileCalls + result.writeFileCalls
           /\ disk' = disk \cup result.written
  /\ calls' = calls \cup {"saveToFile"}
  /\ UNCHANGED << extractVars, inputVars, parsed, valid, testerVars >>

NextParser == Parse \/ Validate \/ SaveToFile
SpecParser == InitParser /\ [][NextParser]_vars

\* a and b are the same string up to the case of their letters.
SameIgnoringCase(a, b) ==
  Len(a) = Len(b) /\ \A i \in DOMAIN a : toUpperCase(<<a[i]>>) = toUpperCase(<<b[i]>>)
SavedFormat == IF saved.args.format.defined THEN saved.args.format.value ELSE json
SupportedFormat == \E f \in { json, yaml, txt, csv } : SameIgnoringCase(SavedFormat, f)

C10_ValidateAgreesWithParse ==
  {"parse", "validate"} \subseteq calls =>
    /\ ~valid.threw
    /\ valid.value = ~parsed.threw

====
